---- MODULE Spec2Model ----
(***************************************************************************)
(* A model of the job pipeline of src/server.js (analyze / convert /       *)
(* status / download-stream over the in-memory JOBS map and its periodic   *)
(* sweep).                                                                 *)
(*                                                                         *)
(* Text is a sequence of one-character strings, so that the conversions    *)
(* of the code (String, encodeURIComponent, the query parser, escapeHtml,  *)
(* the filename regex) are computed character by character.  A JavaScript  *)
(* value is a tagged record: Undef, Num(n) or Str(text).                   *)
(*                                                                         *)
(* Time is the value of Date.now() in milliseconds since process start.    *)
(* Three specifications run the same handlers:                             *)
(*   Spec        many URLs, selectors and resolver answers, over a short   *)
(*               stretch of time (no Job gets old enough to expire);       *)
(*   SpecExpiry  few inputs, over a stretch longer than the TTL, so that   *)
(*               Jobs expire and are swept;                                *)
(*   SpecPair    few inputs and a short stretch of time, with several Jobs *)
(*               in the store at once.                                     *)
(* A fourth, SpecRelay, runs the GET /download handler of the relay        *)
(* variant (src/unnamed/part_000), a process of its own that keeps no      *)
(* state between requests and calls a remote backend for both steps.       *)
(***************************************************************************)
EXTENDS Integers, Sequences, FiniteSets

VARIABLES
  now,        \* Date.now()
  nextSweep,  \* the instant the setInterval timer is due next
  JOBS,       \* the Map JOBS: a function from the ids it holds to Job objects
  issued,     \* how many uuids uuidv4() has handed out
  dl,         \* the GET /download/file request in flight (one at a time)
  resp,       \* the response the last step sent (NoResp when it sent none)
  alive,      \* the process is up (an uncaught exception ends it)
  relay       \* the GET /download request of the relay variant in flight

vars == <<now, nextSweep, JOBS, issued, dl, resp, alive, relay>>

----------------------------------------------------------------------------
(* Bounds of the model *)

\* Spec: how many Jobs Analyze may create
MaxJobs == 1
\* SpecExpiry: how many Jobs Analyze may create
MaxJobsExpiry == 1
\* SpecPair: how many Jobs Analyze may create
MaxJobsPair == 2
\* Spec: how many sweep intervals time runs for
ShortSweeps == 1
\* SpecExpiry: how many sweep intervals time runs on after the TTL
ExtraSweeps == 1
\* how many instants the model tells apart within one sweep interval
TicksPerSweep == 2
\* how many chunks a stream delivers at most
MaxChunks == 1

(* Program constants *)

JOB_TTL_MS == 10 * 60 * 1000
SWEEP_INTERVAL_MS == 60 * 1000
\* the first formats the status markup lists
STATUS_FORMATS == 8
BYTES_PER_MB == 1024 * 1024

TickMs == SWEEP_INTERVAL_MS \div TicksPerSweep
ShortHorizon == ShortSweeps * SWEEP_INTERVAL_MS
ExpiryHorizon == JOB_TTL_MS + ExtraSweeps * SWEEP_INTERVAL_MS

----------------------------------------------------------------------------
(* JavaScript values and text *)

Undef == [t |-> "undefined"]
Null == [t |-> "null"]
Num(n) == [t |-> "number", v |-> n]
Str(s) == [t |-> "string", v |-> s]

\* !x is false
Truthy(x) ==
  CASE x.t \in {"undefined", "null"} -> FALSE
    [] x.t = "number" -> x.v # 0
    [] x.t = "string" -> x.v # <<>>

\* a || b
OrElse(a, b) == IF Truthy(a) THEN a ELSE b

DigitChars == <<"0", "1", "2", "3", "4", "5", "6", "7", "8", "9">>

IsDigit(c) == \E i \in 1..10 : DigitChars[i] = c

DigitVal(c) == (CHOOSE i \in 1..10 : DigitChars[i] = c) - 1

RECURSIVE NumToStr(_)
NumToStr(n) ==
  IF n < 10 THEN <<DigitChars[n + 1]>>
  ELSE NumToStr(n \div 10) \o <<DigitChars[(n % 10) + 1]>>

\* String(x), and what a template literal or encodeURIComponent makes of x
JsString(x) ==
  CASE x.t = "undefined" -> <<"u", "n", "d", "e", "f", "i", "n", "e", "d">>
    [] x.t = "null" -> <<"n", "u", "l", "l">>
    [] x.t = "number" -> NumToStr(x.v)
    [] x.t = "string" -> x.v

\* a === b
StrictEq(a, b) == a.t = b.t /\ (a.t \in {"undefined", "null"} \/ a.v = b.v)

Letters ==
  {"a", "b", "c", "d", "e", "f", "g", "h", "i", "j", "k", "l", "m",
   "n", "o", "p", "q", "r", "s", "t", "u", "v", "w", "x", "y", "z",
   "A", "B", "C", "D", "E", "F", "G", "H", "I", "J", "K", "L", "M",
   "N", "O", "P", "Q", "R", "S", "T", "U", "V", "W", "X", "Y", "Z"}

\* the characters encodeURIComponent leaves as they are
Unreserved ==
  Letters \cup {DigitChars[i] : i \in 1..10}
          \cup {"-", "_", ".", "!", "~", "*", "'", "(", ")"}

\* the percent codes of the other characters of the model's alphabet
PctTable ==
  {<<" ", "2", "0">>, <<"\"", "2", "2">>, <<"#", "2", "3">>,
   <<"%", "2", "5">>, <<"&", "2", "6">>, <<"+", "2", "B">>,
   <<"/", "2", "F">>, <<":", "3", "A">>, <<";", "3", "B">>,
   <<"<", "3", "C">>, <<"=", "3", "D">>, <<">", "3", "E">>,
   <<"?", "3", "F">>}

PctEncodeChar(c) ==
  IF c \in Unreserved THEN <<c>>
  ELSE LET e == CHOOSE e \in PctTable : e[1] = c IN <<"%", e[2], e[3]>>

RECURSIVE encodeURIComponentText(_)
encodeURIComponentText(s) ==
  IF s = <<>> THEN <<>>
  ELSE PctEncodeChar(Head(s)) \o encodeURIComponentText(Tail(s))

\* the value put into the URL as it is
RawInterpolation(x) == JsString(x)

encodeURIComponent(x) == encodeURIComponentText(JsString(x))

\* the text before the first sep, and the text after it
RECURSIVE IndexOf(_, _, _)
IndexOf(s, c, i) ==
  IF i > Len(s) THEN 0
  ELSE IF s[i] = c THEN i
  ELSE IndexOf(s, c, i + 1)

RECURSIVE Split(_, _)
Split(s, sep) ==
  LET i == IndexOf(s, sep, 1) IN
  IF i = 0 THEN <<s>>
  ELSE <<SubSeq(s, 1, i - 1)>> \o Split(SubSeq(s, i + 1, Len(s)), sep)

\* a well-formed text of percent codes (decodeURIComponent throws on others)
RECURSIVE PctWellFormed(_)
PctWellFormed(s) ==
  IF s = <<>> THEN TRUE
  ELSE IF Head(s) # "%" THEN PctWellFormed(Tail(s))
  ELSE /\ Len(s) >= 3
       /\ \E e \in PctTable : e[2] = s[2] /\ e[3] = s[3]
       /\ PctWellFormed(SubSeq(s, 4, Len(s)))

RECURSIVE PctDecode(_)
PctDecode(s) ==
  IF s = <<>> THEN <<>>
  ELSE IF Head(s) # "%" THEN <<Head(s)>> \o PctDecode(Tail(s))
  ELSE LET e == CHOOSE e \in PctTable : e[2] = s[2] /\ e[3] = s[3]
       IN <<e[1]>> \o PctDecode(SubSeq(s, 4, Len(s)))

PlusToSpace(s) == [i \in 1..Len(s) |-> IF s[i] = "+" THEN " " ELSE s[i]]

\* the decoder of the query parser: '+' is a space, then decodeURIComponent,
\* and the text as it is when that throws
QueryDecode(s) ==
  LET t == PlusToSpace(s) IN IF PctWellFormed(t) THEN PctDecode(t) ELSE t

\* one "key=value" part of a query: <<key, value>>
QueryPart(p) ==
  LET i == IndexOf(p, "=", 1) IN
  IF i = 0 THEN <<QueryDecode(p), <<>>>>
  ELSE <<QueryDecode(SubSeq(p, 1, i - 1)),
         QueryDecode(SubSeq(p, i + 1, Len(p)))>>

\* req.query[key] of a request whose URL has the query q
QueryParam(q, key) ==
  LET parts == Split(q, "&")
      hits == {i \in 1..Len(parts) :
                 parts[i] # <<>> /\ QueryPart(parts[i])[1] = key}
  IN IF hits = {} THEN Undef
     ELSE Str(QueryPart(parts[CHOOSE i \in hits : \A j \in hits : i <= j])[2])

----------------------------------------------------------------------------
(* The helpers of server.js *)

\* escapeHtml, lines 218-226: the replacements in the order of the code
\* (the ampersand first, so the entities written later are not escaped again)
EscapeChar(c) ==
  CASE c = "&" -> <<"&", "a", "m", "p", ";">>
    [] c = "\"" -> <<"&", "q", "u", "o", "t", ";">>
    [] c = "'" -> <<"&", "#", "3", "9", ";">>
    [] c = "<" -> <<"&", "l", "t", ";">>
    [] c = ">" -> <<"&", "g", "t", ";">>
    [] OTHER -> <<c>>

RECURSIVE EscapeText(_)
EscapeText(s) ==
  IF s = <<>> THEN <<>> ELSE EscapeChar(Head(s)) \o EscapeText(Tail(s))

escapeHtml(x) == IF ~Truthy(x) THEN <<>> ELSE EscapeText(JsString(x))

\* parseInt(text, 10): the leading digits, NaN (-1 here) when there are none
RECURSIVE LeadingDigits(_)
LeadingDigits(s) ==
  IF s = <<>> \/ ~IsDigit(Head(s)) THEN <<>>
  ELSE <<Head(s)>> \o LeadingDigits(Tail(s))

RECURSIVE DigitsToNum(_, _)
DigitsToNum(s, acc) ==
  IF s = <<>> THEN acc ELSE DigitsToNum(Tail(s), 10 * acc + DigitVal(Head(s)))

NaN == -1

parseInt(x) ==
  LET d == LeadingDigits(JsString(x)) IN
  IF d = <<>> THEN NaN ELSE DigitsToNum(d, 0)

\* Math.round(a / b) for a >= 0, b > 0
RoundDiv(a, b) == (2 * a + b) \div (2 * b)

\* approxSizeByBitrate, lines 29-34
approxSizeByBitrate(contentLength) ==
  IF ~Truthy(contentLength) THEN Null
  ELSE LET bytes == parseInt(contentLength) IN
       IF bytes = NaN THEN Null
       ELSE Str(NumToStr(RoundDiv(bytes, BYTES_PER_MB)) \o <<" ", "M", "B">>)

\* an id that does not depend on the uuid
makeJobIdFixed(n) == <<"J", "1">>

\* the stand-in for the n-th value of Buffer.from(uuidv4()).toString("base64url"):
\* uuidv4 never hands out the same uuid twice, and the encoding is injective
\* and made of URL-safe characters only
makeJobId(n) == <<"J">> \o NumToStr(n)

\* line 196: replace(/[^a-z0-9_\-\.]/gi, "_")
SafeChar(c) ==
  IF c \in Letters \/ IsDigit(c) \/ c \in {"_", "-", "."} THEN c ELSE "_"

TitleSafe(s) == [i \in 1..Len(s) |-> SafeChar(s[i])]

\* line 199: mimeType.split(";")[0]
BeforeSemicolon(s) == Split(s, ";")[1]

----------------------------------------------------------------------------
(* The Format Resolver (ytdl-core) *)

Rep(c, n) == [i \in 1..n |-> c]

YtPrefix ==
  <<"h", "t", "t", "p", "s", ":", "/", "/",
    "y", "o", "u", "t", "u", ".", "b", "e", "/">>

IdChars == Letters \cup {DigitChars[i] : i \in 1..10} \cup {"-", "_"}

\* ytdl.validateID: exactly eleven id characters
validateID(s) == Len(s) = 11 /\ \A i \in 1..11 : s[i] \in IdChars

\* ytdl.validateURL, for the URL shape of the model: the prefix and an id
validateURL(s) ==
  /\ Len(s) = Len(YtPrefix) + 11
  /\ SubSeq(s, 1, Len(YtPrefix)) = YtPrefix
  /\ validateID(SubSeq(s, Len(YtPrefix) + 1, Len(s)))

\* url.match(/[a-zA-Z0-9_-]{11}/), line 47
HasIdRun(s) ==
  \E i \in 1..Len(s) :
    i + 10 <= Len(s) /\ \A j \in i..(i + 10) : s[j] \in IdChars

\* ytdl's getVideoID: the id of a URL or of a bare id, <<>> when it throws
VideoIdOf(s) ==
  IF validateID(s) THEN s
  ELSE IF validateURL(s) THEN SubSeq(s, Len(YtPrefix) + 1, Len(s))
  ELSE <<>>

VidA == Rep("A", 11)
VidB == Rep("B", 11)
VidC == Rep("C", 11)
UrlA == YtPrefix \o VidA
UrlB == YtPrefix \o VidB
UrlC == YtPrefix \o VidC

TMp4 == <<"m", "p", "4">>
TMarkup == <<"<", "b", "&", "\"", ">">>
TCodecs == <<";", " ", "c", "o", "d", "e", "c", "s", "=", "\"", "x", "\"">>
TVideo == <<"v", "i", "d", "e", "o", "/">>
TAudio == <<"a", "u", "d", "i", "o", "/">>

RawFormat(itag, mime, ql, abr, container, v, a, clen) ==
  [itag |-> itag, mimeType |-> mime, qualityLabel |-> ql, audioBitrate |-> abr,
   container |-> container, hasVideo |-> v, hasAudio |-> a,
   contentLength |-> clen]

\* video only
F137 ==
  RawFormat(137, Str(TVideo \o TMp4 \o TCodecs), Str(<<"1", "0", "8", "0", "p">>),
            Undef, Str(TMp4), TRUE, FALSE, Str(<<"8", "3", "8", "8", "6", "0", "8">>))
\* video and audio
F18 ==
  RawFormat(18, Str(TVideo \o TMp4 \o TCodecs), Str(<<"3", "6", "0", "p">>),
            Num(96), Str(TMp4), TRUE, TRUE, Str(<<"3", "6", "7", "0", "0", "1", "6">>))
\* video and audio, nothing else known
F43 ==
  RawFormat(43, Undef, Undef, Undef, Undef, TRUE, TRUE, Undef)
\* audio only, of a container whose name has markup in it
F251 ==
  RawFormat(251, Str(TAudio \o TMarkup \o TCodecs), Undef,
            Num(160), Str(TMarkup), FALSE, TRUE, Str(<<"x">>))
\* neither video nor audio
F0 ==
  RawFormat(0, Str(<<"t", "e", "x", "t", "/", "x">>), Undef, Undef,
            Str(<<"<", "b", ">">>), FALSE, FALSE, Undef)

\* what the resolver knows of each video: its formats, in its order
Catalogue(vid) ==
  CASE vid = VidA -> <<F137, F0, F18, F43>>
    [] vid = VidB -> <<F251, F137>>
    [] vid = VidC -> <<F0>>
    [] OTHER -> <<>>

VideoDetails(vid) ==
  CASE vid = VidA ->
         [title |-> Str(<<"<", "s", "c", "r", "i", "p", "t", ">">>),
          lengthSeconds |-> Str(<<"2", "1", "2">>),
          author |-> [t |-> "object", name |-> Str(<<"A", "&", "B">>)],
          thumbnails |-> <<"t1">>]
    [] vid = VidB ->
         [title |-> Str(<<"R", "'", "n", "\"", "B", " ", "1">>),
          lengthSeconds |-> Str(<<"6", "0">>),
          author |-> Undef,
          thumbnails |-> <<>>]
    [] OTHER ->
         [title |-> Str(<<>>),
          lengthSeconds |-> Str(<<"0">>),
          author |-> [t |-> "object", name |-> Str(<<"<", "i", ">">>)],
          thumbnails |-> <<>>]

KnownVideos == {VidA, VidB, VidC}

\* the format lists a resolution of vid may return: all the formats of the
\* video, or all but the last (a format that is gone by now)
FormatVersions(vid) ==
  LET all == Catalogue(vid) IN
  {all} \cup (IF all = <<>> THEN {} ELSE {SubSeq(all, 1, Len(all) - 1)})

\* the answers ytdl.getInfo(url) may give: it throws (kind "error": not a
\* video URL, the network, the site), or resolves to an info object, whose
\* videoDetails may be missing (kind "nometa")
ResolverAnswers(s) ==
  LET vid == VideoIdOf(s) IN
  {[kind |-> "error"]} \cup
  (IF vid \notin KnownVideos THEN {}
   ELSE {[kind |-> "nometa", formats |-> Catalogue(vid)]} \cup
        {[kind |-> "info", formats |-> fs, videoDetails |-> VideoDetails(vid)] :
           fs \in FormatVersions(vid)})

----------------------------------------------------------------------------
(* Requests and responses *)

\* an HTTP request as the handlers read it: req.query and req.body
Request(q, b) == [query |-> q, body |-> b]

NoFields == [id |-> Undef, url |-> Undef, format |-> Undef, itag |-> Undef,
             fmt |-> Undef]

NoResp == [op |-> "none"]

\* a failure whose body has a status other than false
FailureStatusError(op, code, error, in) ==
  [op |-> op, code |-> code, status |-> "error", error |-> error, in |-> in]

\* the failure sent without res.status(code), as lines 48 and 154 send theirs
FailureWithoutStatus(op, code, error, in) ==
  [op |-> op, code |-> 200, status |-> "false", error |-> error, in |-> in]

\* res.status(code).json({status: false, error})
Failure(op, code, error, in) ==
  [op |-> op, code |-> code, status |-> "false", error |-> error, in |-> in]

Idle == [pc |-> "idle"]

\* no request of the relay variant in flight
RelayIdle == [pc |-> "idle"]

Init ==
  /\ relay = RelayIdle
  /\ now = 0
  /\ nextSweep = SWEEP_INTERVAL_MS
  /\ JOBS = <<>>
  /\ issued = 0
  /\ dl = Idle
  /\ resp = NoResp
  /\ alive = TRUE

\* JOBS.get(jobId) finds a Job: the keys of the map are strings
Has(jobId) == jobId.t = "string" /\ jobId.v \in DOMAIN JOBS

----------------------------------------------------------------------------
(* Time and the sweep, lines 21-26 *)

\* time passes; the timer's callback runs before time moves past its instant
Tick(horizon) ==
  /\ alive
  /\ now < nextSweep
  /\ now + TickMs <= horizon
  /\ now' = now + TickMs
  /\ resp' = NoResp
  /\ UNCHANGED <<alive, nextSweep, JOBS, issued, dl, relay>>

\* the test with >= for >: a Job is deleted at the end of its last minute
ExpiredFromTTL(job, t) == t - job.createdAt >= JOB_TTL_MS

\* the test that gives a Job one more interval
ExpiredLate(job, t) == t - job.createdAt > JOB_TTL_MS + SWEEP_INTERVAL_MS

\* line 24: the test that deletes a Job
Expired(job, t) == t - job.createdAt > JOB_TTL_MS

\* the callback of setInterval
Sweep ==
  /\ alive
  /\ now >= nextSweep
  /\ JOBS' = [id \in {i \in DOMAIN JOBS : ~Expired(JOBS[i], now)} |-> JOBS[id]]
  /\ nextSweep' = now + SWEEP_INTERVAL_MS
  /\ resp' = NoResp
  /\ UNCHANGED <<alive, now, issued, dl, relay>>

----------------------------------------------------------------------------
(* POST /mates/en/analyze/ajax, lines 40-94 *)

\* line 61: f.qualityLabel || f.audioBitrate ? `${...}` : "unknown"
StoredQualityLabel(f) ==
  IF Truthy(OrElse(f.qualityLabel, f.audioBitrate))
  THEN Str(IF Truthy(f.audioBitrate)
           THEN JsString(f.audioBitrate) \o <<"k", "b", "p", "s">>
           ELSE <<>>)
  ELSE Str(<<"u", "n", "k", "n", "o", "w", "n">>)

\* lines 58-66: the descriptor stored for a raw format
StoredFormat(f) ==
  [itag |-> f.itag,
   mimeType |-> f.mimeType,
   qualityLabel |-> StoredQualityLabel(f),
   container |-> Str(JsString(OrElse(f.container, Str(<<>>)))),
   hasVideo |-> f.hasVideo,
   hasAudio |-> f.hasAudio,
   approxSize |-> approxSizeByBitrate(f.contentLength)]

\* the filter that keeps every descriptor
UsableAll(f) == TRUE

\* line 57: the filter
Usable(f) == f.hasVideo \/ f.hasAudio

RECURSIVE FilterUsable(_)
FilterUsable(fs) ==
  IF fs = <<>> THEN <<>>
  ELSE IF Usable(Head(fs)) THEN <<Head(fs)>> \o FilterUsable(Tail(fs))
  ELSE FilterUsable(Tail(fs))

\* lines 55-66
StoredFormats(raw) ==
  LET kept == FilterUsable(raw) IN [i \in 1..Len(kept) |-> StoredFormat(kept[i])]

\* lines 73-78
StoredInfo(d) ==
  [title |-> d.title,
   lengthSeconds |-> d.lengthSeconds,
   author |-> IF d.author.t = "object" THEN d.author.name ELSE d.author,
   thumbnails |-> d.thumbnails]

\* lines 45-49: the request goes on to the resolver
PassesValidation(s) == validateURL(s) \/ validateID(s) \/ HasIdRun(s)

\* lines 69-81: JOBS.set(id, {...})
PutJob(jobs, id, job) ==
  [i \in DOMAIN jobs \cup {id} |-> IF i = id THEN job ELSE jobs[i]]

\* the handler, run from the request to its response (with, for the
\* properties, the raw list the resolver gave: raw): the only await (line 52)
\* comes before the handler reads or writes JOBS, so the steps of other
\* requests that interleave there change nothing it has read.  maxJobs bounds
\* the Jobs the model lets Analyze create; requests that fail are always served.
Analyze(req, maxJobs) ==
  LET url == OrElse(req.body.url, req.query.url)
      in == [url |-> url]
  IN
  /\ alive
  /\ IF ~Truthy(url)
     THEN /\ resp' = Failure("analyze", 400, "Missing url", in)
          /\ UNCHANGED <<JOBS, issued>>
     ELSE IF ~PassesValidation(JsString(url))
     THEN /\ resp' = Failure("analyze", 200, "Invalid YouTube URL/ID", in)
          /\ UNCHANGED <<JOBS, issued>>
     ELSE \E answer \in ResolverAnswers(JsString(url)) :
            IF answer.kind # "info"
            THEN \* getInfo threw, or info.videoDetails.title threw: the catch
                 /\ resp' = Failure("analyze", 500, "error", in)
                 /\ UNCHANGED <<JOBS, issued>>
            ELSE LET id == makeJobId(issued + 1)
                      job == [id |-> id,
                              url |-> JsString(url),
                              info |-> StoredInfo(answer.videoDetails),
                              formats |-> StoredFormats(answer.formats),
                              createdAt |-> now]
                  IN /\ issued < maxJobs
                     /\ issued' = issued + 1
                     /\ JOBS' = PutJob(JOBS, id, job)
                     /\ resp' = [op |-> "analyze", code |-> 200, status |-> "ok",
                                 id |-> id, video |-> job.info,
                                 formats |-> job.formats, in |-> in,
                                 raw |-> answer.formats]
  /\ UNCHANGED <<alive, now, nextSweep, dl, relay>>

----------------------------------------------------------------------------
(* POST /mates/en/convert, lines 100-143 *)

\* lines 119-129: the selector when the request gives none
RECURSIVE FirstCombined(_)
FirstCombined(fs) ==
  IF fs = <<>> THEN <<>>
  ELSE IF Head(fs).hasVideo /\ Head(fs).hasAudio THEN <<Head(fs)>>
  ELSE FirstCombined(Tail(fs))

\* the last combined descriptor for the first (the comment of line 124)
DefaultItagLastCombined(formats) ==
  LET videoAudio == FirstCombined(formats) IN
  IF videoAudio # <<>>
  THEN Num(formats[CHOOSE i \in 1..Len(formats) :
                     /\ formats[i].hasVideo /\ formats[i].hasAudio
                     /\ \A j \in (i + 1)..Len(formats) :
                          ~(formats[j].hasVideo /\ formats[j].hasAudio)].itag)
  ELSE IF formats # <<>> THEN Num(formats[1].itag)
  ELSE Undef

\* no fallback to the first descriptor
DefaultItagNoFallback(formats) ==
  LET videoAudio == FirstCombined(formats) IN
  IF videoAudio # <<>> THEN Num(videoAudio[1].itag) ELSE Undef

DefaultItag(formats) ==
  LET videoAudio == FirstCombined(formats) IN
  IF videoAudio # <<>> THEN Num(videoAudio[1].itag)
  ELSE IF formats # <<>> THEN Num(formats[1].itag)
  ELSE Undef

ChosenItag(itag, formats) == IF Truthy(itag) THEN itag ELSE DefaultItag(formats)

\* line 132, from the path on: the scheme and the host are the request's own
DownloadPath == <<"/", "d", "o", "w", "n", "l", "o", "a", "d", "/", "f", "i", "l", "e">>

DownloadQuery(jobId, chosenItag) ==
  <<"i", "d", "=">> \o encodeURIComponent(jobId)
    \o <<"&", "i", "t", "a", "g", "=">> \o encodeURIComponent(chosenItag)

BuildDownloadUrl(jobId, chosenItag) ==
  DownloadPath \o <<"?">> \o DownloadQuery(jobId, chosenItag)

\* the overwrite that also drops the formats listed for the old URL
SetUrlClearingFormats(job, url) == [job EXCEPT !.url = url, !.formats = <<>>]

\* lines 113-116: job.url = url writes the Job object, which the map and a
\* download request that looked the Job up both hold
SetUrl(job, url) == [job EXCEPT !.url = url]

Convert(req) ==
  LET jobId == OrElse(req.query.id, req.body.id)
      url == OrElse(req.body.url, req.query.url)
      itag == OrElse(req.body.format, OrElse(req.body.itag,
                OrElse(req.body.fmt, OrElse(req.query.format, req.query.itag))))
      in == [id |-> jobId, url |-> url, itag |-> itag]
  IN
  /\ alive
  /\ IF ~Truthy(jobId)
     THEN /\ resp' = Failure("convert", 400, "Missing id", in)
          /\ UNCHANGED <<JOBS, dl>>
     ELSE IF ~Has(jobId)
     THEN /\ resp' = Failure("convert", 404, "Job not found or expired", in)
          /\ UNCHANGED <<JOBS, dl>>
     ELSE LET id == JsString(jobId)
              job == JOBS[id]
              overwrite == Truthy(url) /\ JsString(url) # job.url
              chosenItag == ChosenItag(itag, job.formats)
          IN /\ JOBS' = IF overwrite
                        THEN [JOBS EXCEPT ![id] = SetUrl(job, JsString(url))]
                        ELSE JOBS
             /\ dl' = IF overwrite /\ dl.pc # "idle" /\ dl.job.id = id
                      THEN [dl EXCEPT !.job = SetUrl(dl.job, JsString(url))]
                      ELSE dl
             /\ resp' = [op |-> "convert", code |-> 200, status |-> "success",
                         downloadUrl |-> BuildDownloadUrl(jobId, chosenItag),
                         itag |-> chosenItag, in |-> in]
  /\ UNCHANGED <<alive, now, nextSweep, issued, relay>>

----------------------------------------------------------------------------
(* GET /mates/en/status, lines 148-174 *)

\* line 163: one row of the markup, the texts as the template embeds them
StatusRow(f) ==
  [itag |-> NumToStr(f.itag),
   qualityLabel |-> JsString(OrElse(f.qualityLabel, Str(<<>>))),
   container |-> JsString(OrElse(f.container, Str(<<>>))),
   flags |-> (IF f.hasVideo THEN <<"V">> ELSE <<" ">>)
               \o (IF f.hasAudio THEN <<"A">> ELSE <<>>),
   approxSize |-> JsString(OrElse(f.approxSize, Str(<<>>)))]

\* lines 157-167: the texts embedded in the markup, in its order
StatusMarkup(job) ==
  [title |-> escapeHtml(job.info.title),
   author |-> escapeHtml(OrElse(job.info.author,
                                Str(<<"U", "n", "k", "n", "o", "w", "n">>))),
   lengthSeconds |-> JsString(job.info.lengthSeconds),
   rows |-> [i \in 1..(IF Len(job.formats) < STATUS_FORMATS
                       THEN Len(job.formats) ELSE STATUS_FORMATS)
               |-> StatusRow(job.formats[i])]]

Status(req) ==
  LET jobId == req.query.id
      in == [id |-> jobId]
  IN
  /\ alive
  /\ resp' = IF ~Truthy(jobId)
             THEN Failure("status", 400, "Missing id", in)
             ELSE IF ~Has(jobId)
             THEN Failure("status", 200, "Job not found", in)
             ELSE [op |-> "status", code |-> 200, status |-> "success",
                   result |-> StatusMarkup(JOBS[JsString(jobId)]), in |-> in]
  /\ UNCHANGED <<alive, now, nextSweep, JOBS, issued, dl, relay>>

----------------------------------------------------------------------------
(* GET /download/file, lines 180-215 *)

NoHeaders == [disposition |-> "", filename |-> <<>>, contentType |-> <<>>]

\* the response object of a request: the headers set on it, whether they have
\* gone out, and the chunks of the body written
NewRes == [headers |-> NoHeaders, headersSent |-> FALSE, chunks |-> 0]

\* what the resolver answered the request, as the properties read it
NoAnswer == [kind |-> "none", itags |-> <<>>]

Fresh(answer) ==
  [kind |-> answer.kind,
   itags |-> IF answer.kind = "error" THEN <<>>
             ELSE [i \in 1..Len(answer.formats) |-> answer.formats[i].itag]]

\* the end of a download request, as the client sees it: what ended it
\* (cause), how it ended ("status": a status and a text body; "complete":
\* the stream's end; "cut": res.end() after an error; "crash": the process
\* died), with the headers set on the response and the chunks written to it
\* by then
DownloadResponse(cause, how, code, body, res, in, fresh, itag, streamUrl, client) ==
  [op |-> "download", cause |-> cause, how |-> how, code |-> code, body |-> body,
   headers |-> res.headers, headersSent |-> res.headersSent,
   chunks |-> res.chunks, in |-> in, fresh |-> fresh, itag |-> itag,
   streamUrl |-> streamUrl, client |-> client]

\* res.status(code).send(text) before any stream exists
Sent(cause, code, text, res, in, fresh) ==
  DownloadResponse(cause, "status", code, text, res, in, fresh, Undef, <<>>, "open")

\* lines 182-188: up to the await of ytdl.getInfo(job.url).  The request keeps
\* the Job object it looked up (job) and the URL it handed to the resolver.
DownloadStart(req) ==
  LET jobId == req.query.id
      itag == req.query.itag
      in == [id |-> jobId, itag |-> itag]
  IN
  /\ alive
  /\ dl.pc = "idle"
  /\ IF ~Truthy(jobId)
     THEN /\ resp' = Sent("no id", 400, "Missing id", NewRes, in, NoAnswer)
          /\ dl' = dl
     ELSE IF ~Has(jobId)
     THEN /\ resp' = Sent("no job", 404, "Job not found", NewRes, in, NoAnswer)
          /\ dl' = dl
     ELSE /\ resp' = NoResp
          /\ dl' = [pc |-> "resolving", in |-> in, itag |-> itag,
                    job |-> JOBS[jobId.v], resolveUrl |-> JOBS[jobId.v].url,
                    res |-> NewRes]
  /\ UNCHANGED <<alive, now, nextSweep, JOBS, issued, relay>>

\* find with a fallback to the first format of the resolution
FindFormatOrFirst(fs, itag) ==
  LET hits == {i \in 1..Len(fs) : NumToStr(fs[i].itag) = JsString(itag)} IN
  IF hits # {} THEN <<fs[CHOOSE i \in hits : \A j \in hits : i <= j]>>
  ELSE IF fs # <<>> THEN <<fs[1]>>
  ELSE <<>>

\* line 190: formats.find(f => String(f.itag) === String(itag))
RECURSIVE FindFormat(_, _)
FindFormat(fs, itag) ==
  IF fs = <<>> THEN <<>>
  ELSE IF NumToStr(Head(fs).itag) = JsString(itag) THEN <<Head(fs)>>
  ELSE FindFormat(Tail(fs), itag)

\* lines 196-199: the headers set for the download
DownloadHeaders(title, format) ==
  LET titleSafe == TitleSafe(JsString(OrElse(title, Str(<<"v", "i", "d", "e", "o">>))))
      ext == JsString(OrElse(format.container, Str(TMp4)))
  IN [disposition |-> "attachment",
      filename |-> titleSafe \o <<".">> \o ext,
      contentType |-> IF Truthy(format.mimeType)
                      THEN BeforeSemicolon(JsString(format.mimeType))
                      ELSE <<"a", "p", "p", "l", "i", "c", "a", "t", "i", "o", "n",
                             "/", "o", "c", "t", "e", "t", "-", "s", "t", "r", "e",
                             "a", "m">>]

\* res.setHeader, lines 198-199: the headers are stored, not sent
SetHeaders(res, headers) == [res EXCEPT !.headers = headers]

\* lines 188-209, from the resolver's answer on, in one step: nothing awaits
\* between them.  The stream is made from job.url as it is now (line 202).
DownloadResolved ==
  /\ alive
  /\ dl.pc = "resolving"
  /\ \E answer \in ResolverAnswers(dl.resolveUrl) :
     IF answer.kind = "error"
     THEN \* getInfo threw: the catch, line 212
          /\ resp' = Sent("getInfo threw", 500, "Server error", dl.res, dl.in,
                          Fresh(answer))
          /\ dl' = Idle
     ELSE LET found == FindFormat(answer.formats, dl.itag) IN
          IF found = <<>>
          THEN /\ resp' = Sent("no format", 400, "Format not available", dl.res,
                               dl.in, Fresh(answer))
               /\ dl' = Idle
          ELSE IF answer.kind = "nometa"
          THEN \* info.videoDetails.title throws: the catch, line 212
               /\ resp' = Sent("no videoDetails", 500, "Server error", dl.res,
                               dl.in, Fresh(answer))
               /\ dl' = Idle
          ELSE /\ resp' = NoResp
               /\ dl' = [pc |-> "streaming", in |-> dl.in, itag |-> dl.itag,
                         job |-> dl.job, resolveUrl |-> dl.resolveUrl,
                         res |-> SetHeaders(dl.res,
                                   DownloadHeaders(answer.videoDetails.title, found[1])),
                         fresh |-> Fresh(answer),
                         format |-> found[1],
                         streamUrl |-> dl.job.url,
                         stream |-> "flowing",
                         client |-> "open"]
  /\ UNCHANGED <<alive, now, nextSweep, JOBS, issued, relay>>

\* res.write: the headers go out with the first chunk
Written(res) == [res EXCEPT !.chunks = res.chunks + 1, !.headersSent = TRUE]

\* stream.pipe(res), line 209: a chunk of the stream is written to the response
StreamData ==
  /\ alive
  /\ dl.pc = "streaming"
  /\ dl.stream = "flowing"
  /\ dl.res.chunks < MaxChunks
  /\ dl' = [dl EXCEPT !.res = Written(dl.res)]
  /\ resp' = NoResp
  /\ UNCHANGED <<alive, now, nextSweep, JOBS, issued, relay>>

\* the end of a request that was streaming
Ended(cause, how, code, body, d) ==
  DownloadResponse(cause, how, code, body, d.res, d.in, d.fresh, Num(d.format.itag),
                   d.streamUrl, d.client)

\* the stream ends: pipe ends the response
StreamEnd ==
  /\ alive
  /\ dl.pc = "streaming"
  /\ dl.stream = "flowing"
  /\ resp' = Ended("stream end", "complete", 200, "", dl)
  /\ dl' = Idle
  /\ UNCHANGED <<alive, now, nextSweep, JOBS, issued, relay>>

\* the listener without its test of res.headersSent
AlwaysSend500(headersSent) == "send500"

\* lines 203-207: what the listener of the stream's error does
OnStreamError(headersSent) == IF ~headersSent THEN "send500" ELSE "end"

\* the stream emits its one error (it delivers nothing after it).  send, once
\* the headers are out, throws in the listener: an uncaught exception
StreamError ==
  /\ alive
  /\ dl.pc = "streaming"
  /\ dl.stream \in {"flowing", "paused"}
  /\ LET act == OnStreamError(dl.res.headersSent) IN
     /\ alive' = ~(act = "send500" /\ dl.res.headersSent)
     /\ resp' = CASE act = "send500" /\ ~dl.res.headersSent ->
                       Ended("stream error", "status", 500, "Stream error", dl)
                  [] act = "send500" /\ dl.res.headersSent ->
                       Ended("stream error", "crash", 200, "", dl)
                  [] OTHER -> Ended("stream error", "cut", 200, "", dl)
  /\ dl' = Idle
  /\ UNCHANGED <<now, nextSweep, JOBS, issued, relay>>

\* what stream.pipe(res) does when the response closes under it: it unpipes,
\* and the stream, with no destination left, stops flowing; nothing in the
\* handler listens for the close, so nothing destroys the stream
OnClientClose(stream) == "paused"

\* the client closes the connection while the response is streaming
ClientDisconnect ==
  /\ alive
  /\ dl.pc = "streaming"
  /\ dl.client = "open"
  /\ dl' = [dl EXCEPT !.client = "closed", !.stream = OnClientClose(dl.stream)]
  /\ resp' = NoResp
  /\ UNCHANGED <<alive, now, nextSweep, JOBS, issued, relay>>

----------------------------------------------------------------------------
(* The requests of the environment *)

Body(id, url, itag) ==
  Request(NoFields, [NoFields EXCEPT !.id = id, !.url = url, !.itag = itag])

Query(id, url, itag) ==
  Request([NoFields EXCEPT !.id = id, !.url = url, !.itag = itag], NoFields)

\* the request Express hands to the handler of GET <path>?<q>
Parsed(q) ==
  Request([NoFields EXCEPT !.id = QueryParam(q, <<"i", "d">>),
                           !.itag = QueryParam(q, <<"i", "t", "a", "g">>)],
          NoFields)

\* an id no Job has
UnknownId == Str(<<"n", "o", "n", "e">>)

JobIds(n) == {Str(makeJobId(k)) : k \in 1..n}

\* neither a URL nor an id, but with a run of eleven id characters in it
NoisyId == <<"!">> \o VidA

AmpText == <<"a", "&", "b", "=", "c">>

AnalyzeRequests(urls) ==
  {Body(Undef, u, Undef) : u \in {Undef, Str(<<"b", "a", "d">>)} \cup urls}
    \cup {Query(Undef, u, Undef) : u \in urls}

ConvertRequests(ids, newUrls, selectors) ==
  {Body(id, u, i) : id \in ids, u \in {Undef} \cup newUrls,
                    i \in {Undef} \cup selectors}
    \cup {Body(id, u, Undef) : id \in {UnknownId, Undef}, u \in {Undef, Str(UrlB)}}
    \cup {Query(id, Undef, Undef) : id \in ids}

StatusRequests(ids) ==
  {Query(id, Undef, Undef) : id \in ids \cup {UnknownId, Undef}}

\* the queries of the download requests: those of the URLs Convert builds,
\* and one without an id
DownloadQueries(ids, selectors) ==
  {DownloadQuery(id, i) : id \in ids \cup {UnknownId}, i \in {Undef} \cup selectors}
    \cup {<<"i", "t", "a", "g", "=", "1", "8">>}

RichUrls == {Str(UrlA), Str(UrlB), Str(UrlC), Str(NoisyId)}
RichSelectors == {Num(18), Str(<<"4", "3">>), Str(AmpText)}
\* the selectors of the download URLs: Convert's defaults are among them
RichDownloadSelectors == RichSelectors \cup {Num(251)}
RichAnalyze == AnalyzeRequests(RichUrls)
RichConvert == ConvertRequests(JobIds(MaxJobs), {Str(UrlB)}, RichSelectors)
RichStatus == StatusRequests(JobIds(MaxJobs))
RichDownload ==
  {Parsed(q) : q \in DownloadQueries(JobIds(MaxJobs), RichDownloadSelectors)}

LeanAnalyze == {Body(Undef, Str(UrlA), Undef)}
LeanConvert(n) ==
  {Body(id, Undef, Undef) : id \in JobIds(n) \cup {UnknownId, Undef}}
    \cup {Body(UnknownId, Str(UrlB), Undef)}
LeanStatus(n) == StatusRequests(JobIds(n))
LeanDownload(n) == {Parsed(DownloadQuery(id, Num(18))) : id \in JobIds(n)}

ExpiryConvert == LeanConvert(MaxJobsExpiry)
ExpiryStatus == LeanStatus(MaxJobsExpiry)
ExpiryDownload == LeanDownload(MaxJobsExpiry)

\* with a Convert that overwrites the url of the first Job
PairConvert ==
  LeanConvert(MaxJobsPair) \cup {Body(Str(makeJobId(1)), Str(UrlB), Undef)}
PairStatus == LeanStatus(MaxJobsPair)
PairDownload == LeanDownload(MaxJobsPair)

Next ==
  \/ Tick(ShortHorizon)
  \/ Sweep
  \/ \E req \in RichAnalyze : Analyze(req, MaxJobs)
  \/ \E req \in RichConvert : Convert(req)
  \/ \E req \in RichStatus : Status(req)
  \/ \E req \in RichDownload : DownloadStart(req)
  \/ DownloadResolved
  \/ StreamData
  \/ StreamEnd
  \/ StreamError
  \/ ClientDisconnect

NextExpiry ==
  \/ Tick(ExpiryHorizon)
  \/ Sweep
  \/ \E req \in LeanAnalyze : Analyze(req, MaxJobsExpiry)
  \/ \E req \in ExpiryConvert : Convert(req)
  \/ \E req \in ExpiryStatus : Status(req)
  \/ \E req \in ExpiryDownload : DownloadStart(req)
  \/ DownloadResolved
  \/ StreamData
  \/ StreamEnd
  \/ StreamError
  \/ ClientDisconnect

NextPair ==
  \/ Tick(ShortHorizon)
  \/ Sweep
  \/ \E req \in LeanAnalyze : Analyze(req, MaxJobsPair)
  \/ \E req \in PairConvert : Convert(req)
  \/ \E req \in PairStatus : Status(req)
  \/ \E req \in PairDownload : DownloadStart(req)
  \/ DownloadResolved
  \/ StreamData
  \/ StreamEnd
  \/ StreamError
  \/ ClientDisconnect

Spec == Init /\ [][Next]_vars

SpecExpiry == Init /\ [][NextExpiry]_vars

SpecPair == Init /\ [][NextPair]_vars

----------------------------------------------------------------------------
(* The relay variant: GET /download of src/unnamed/part_000, lines 12-80 *)

T360p == <<"3", "6", "0", "p">>
T720p == <<"7", "2", "0", "p">>
T18 == <<"1", "8">>
T22 == <<"2", "2">>

\* req.query of a request to the relay
RelayRequest(url, note, format) ==
  [query |-> [url |-> url, note |-> note, format |-> format]]

\* what an axios.post comes to: it throws (the network, a status outside
\* 2xx), or resolves to a response whose data is the body the backend sent
BackendThrows == [kind |-> "throws"]
BackendData(data) == [kind |-> "data", data |-> data]
Pending == [kind |-> "pending"]

\* the bodies of the backend's analyze: null, or an object with or without id
AnalyzeReplies ==
  {BackendThrows, BackendData(Null)} \cup
  {BackendData([t |-> "object", id |-> i]) :
     i \in {Undef, Str(<<>>), Str(makeJobId(1)), Str(AmpText)}}

\* the bodies of the backend's convert
ConvertReplies ==
  {BackendThrows, BackendData(Null)} \cup
  {BackendData([t |-> "object", status |-> st, downloadUrl |-> u]) :
     st \in {Undef, Str(<<"s", "u", "c", "c", "e", "s", "s">>),
             Str(<<"e", "r", "r", "o", "r">>)},
     u \in {Undef, Str(<<>>), Str(UrlA)}}

\* lines 23-35: the call of step 1
AnalyzeCall(url) == [to |-> "analyze", url |-> url, reply |-> Pending]

\* lines 46-62: the call of step 2, the id in the path and in the form
ConvertCall(videoId, url, note, format) ==
  [to |-> "convert", pathId |-> encodeURIComponent(videoId), id |-> videoId,
   url |-> url, note |-> note, format |-> format, reply |-> Pending]

\* the call with the reply it got
Replied(call, reply) == [call EXCEPT !.reply = reply]

\* res.json(body): one more body sent on the response of the request r
RelayAnswer(status, error, downloadUrl, r, calls) ==
  [op |-> "relay", status |-> status, error |-> error,
   downloadUrl |-> downloadUrl, in |-> r.in, calls |-> calls,
   sent |-> r.sent + 1]

\* res.json({status: false, error})
RelayFailure(error, r, calls) == RelayAnswer("false", error, Undef, r, calls)

\* the test of the convert reply with its second half left out
ConvertOkStatusOnly(data) == Truthy(data.status)

\* line 66, negated: the convert reply counts as a success
ConvertOk(data) == Truthy(data.status) /\ Truthy(data.downloadUrl)

\* lines 14-35: from the request to the await of the analyze call
RelayStart(req) ==
  LET url == req.query.url
      note == OrElse(req.query.note, Str(T360p))
      format == OrElse(req.query.format, Str(T18))
      r == [in |-> req.query, sent |-> 0]
  IN
  /\ relay.pc = "idle"
  /\ IF ~Truthy(url)
     THEN /\ resp' = RelayFailure("Missing url parameter", r, <<>>)
          /\ relay' = RelayIdle
     ELSE /\ resp' = NoResp
          /\ relay' = [pc |-> "analyzing", in |-> req.query, sent |-> 0,
                       url |-> url, note |-> note, format |-> format,
                       calls |-> <<AnalyzeCall(url)>>]
  /\ UNCHANGED <<now, nextSweep, JOBS, issued, dl, alive>>

\* lines 37-62: from the reply of analyze to the await of the convert call;
\* reading a field of a null body throws, which the catch answers (line 78)
RelayAnalyzed ==
  /\ relay.pc = "analyzing"
  /\ \E reply \in AnalyzeReplies :
       LET calls == <<Replied(relay.calls[1], reply)>> IN
       IF reply.kind = "throws" \/ reply.data.t = "null"
       THEN /\ resp' = RelayFailure("err.message", relay, calls)
            /\ relay' = RelayIdle
       ELSE IF ~Truthy(reply.data.id)
       THEN /\ resp' = RelayFailure("Cannot extract ID (Analyze failed)", relay, calls)
            /\ relay' = RelayIdle
       ELSE /\ resp' = NoResp
            /\ relay' = [relay EXCEPT
                 !.pc = "converting",
                 !.calls = calls \o <<ConvertCall(reply.data.id, relay.url,
                                                  relay.note, relay.format)>>]
  /\ UNCHANGED <<now, nextSweep, JOBS, issued, dl, alive>>

\* lines 64-79: from the reply of convert to the response
RelayConverted ==
  /\ relay.pc = "converting"
  /\ \E reply \in ConvertReplies :
       LET calls == <<relay.calls[1], Replied(relay.calls[2], reply)>> IN
       /\ resp' = IF reply.kind = "throws" \/ reply.data.t = "null"
                  THEN RelayFailure("err.message", relay, calls)
                  ELSE IF ~ConvertOk(reply.data)
                  THEN RelayFailure("Convert failed", relay, calls)
                  ELSE RelayAnswer("success", "", reply.data.downloadUrl, relay, calls)
       /\ relay' = RelayIdle
  /\ UNCHANGED <<now, nextSweep, JOBS, issued, dl, alive>>

RelayRequests ==
  {RelayRequest(u, n, f) : u \in {Undef, Str(UrlA), Str(AmpText)},
                           n \in {Undef, Str(T720p)},
                           f \in {Undef, Str(T22)}}

NextRelay ==
  \/ \E req \in RelayRequests : RelayStart(req)
  \/ RelayAnalyzed
  \/ RelayConverted

SpecRelay == Init /\ [][NextRelay]_vars

----------------------------------------------------------------------------
(* The properties *)

\* the descriptors of fs with video and audio
CombinedAt(fs) == {i \in 1..Len(fs) : fs[i].hasVideo /\ fs[i].hasAudio}

\* a successful answer of Convert to a request that gave no selector
DefaultConvert ==
  resp.op = "convert" /\ resp.status = "success" /\ ~Truthy(resp.in.itag)

\* the part of a URL after its first "?", and the part before it
QueryOf(url) == SubSeq(url, IndexOf(url, "?", 1) + 1, Len(url))
PathOf(url) == SubSeq(url, 1, IndexOf(url, "?", 1) - 1)

\* the selector is the itag of one of the formats listed
SelectorIn(itag, itags) ==
  \E i \in 1..Len(itags) : NumToStr(itags[i]) = JsString(itag)

\* C1: once now - createdAt > TTL, no lookup of the Job's id succeeds: Convert
\* and Status do not answer success for it and the download handler does not
\* find it, whether or not the sweep has run since the Job expired.
C1_NoSuccessAfterTTL ==
  [][\A id \in DOMAIN JOBS :
       now - JOBS[id].createdAt > JOB_TTL_MS =>
         /\ ~(/\ resp'.op \in {"convert", "status"}
              /\ resp'.status = "success"
              /\ resp'.in.id = Str(id))
         /\ ~(dl.pc = "idle" /\ dl'.pc = "resolving" /\ dl'.job.id = id)]_vars

\* C2: a Job whose age is at most the TTL after a step is still in the store
\* after it, the same Job (id, createdAt, info, formats), and a lookup of its
\* id made by that step (Convert, Status, download) found it.
C2_LiveJobStays ==
  [][\A id \in DOMAIN JOBS :
       now' - JOBS[id].createdAt <= JOB_TTL_MS =>
         /\ id \in DOMAIN JOBS'
         /\ JOBS'[id].id = id
         /\ JOBS'[id].createdAt = JOBS[id].createdAt
         /\ JOBS'[id].info = JOBS[id].info
         /\ JOBS'[id].formats = JOBS[id].formats
         /\ (resp'.op \in {"convert", "status"} /\ resp'.in.id = Str(id))
              => resp'.status = "success"
         /\ (resp'.op = "download" /\ resp'.in.id = Str(id))
              => resp'.cause # "no job"]_vars

\* a Job of age exactly TTL that the sweep of that instant has left in the
\* store, found by Convert
C2_Witness ==
  \E id \in DOMAIN JOBS :
    /\ now - JOBS[id].createdAt = JOB_TTL_MS
    /\ nextSweep > now
    /\ resp.op = "convert" /\ resp.status = "success" /\ resp.in.id = Str(id)

\* C3: a successful Analyze adds one entry, under an id no Job in the store
\* has, and leaves the other entries as they were (so two calls, also for one
\* URL, make two Jobs).
C3_AnalyzeAddsOneFreshJob ==
  [][(resp'.op = "analyze" /\ resp'.status = "ok") =>
       /\ resp'.id \notin DOMAIN JOBS
       /\ DOMAIN JOBS' = DOMAIN JOBS \cup {resp'.id}
       /\ JOBS'[resp'.id].id = resp'.id
       /\ \A i \in DOMAIN JOBS : JOBS'[i] = JOBS[i]]_vars

\* the second Analyze of one URL has answered: two Jobs of that URL
C3_Witness ==
  /\ resp.op = "analyze" /\ resp.status = "ok"
  /\ \E i, j \in DOMAIN JOBS :
       i # j /\ j = resp.id /\ JOBS[i].url = JOBS[j].url /\ JOBS[i].id # JOBS[j].id

C6_ConvertUnknownId ==
  [][resp'.op = "convert" =>
       /\ alive'
       /\ ~Truthy(resp'.in.id) =>
            /\ resp'.code = 400 /\ resp'.status = "false"
            /\ resp'.error = "Missing id"
            /\ JOBS' = JOBS
       /\ (Truthy(resp'.in.id) /\ resp'.in.id.v \notin DOMAIN JOBS) =>
            /\ resp'.code = 404 /\ resp'.status = "false"
            /\ JOBS' = JOBS]_vars

\* the id of a Job that was created and has been swept
C6_Witness ==
  /\ resp.op = "convert" /\ resp.code = 404
  /\ issued >= 1
  /\ resp.in.id = Str(makeJobId(1))
  /\ JOBS = <<>>

\* C7: a download whose selector is not among the formats of the resolution
\* made for it ends with 400 "Format not available", with no download header
\* set and no chunk written; no such request gets to stream.
C7_FormatUnavailable ==
  /\ (/\ resp.op = "download"
      /\ resp.fresh.kind \in {"info", "nometa"}
      /\ ~SelectorIn(resp.in.itag, resp.fresh.itags))
       => /\ resp.how = "status" /\ resp.code = 400
          /\ resp.body = "Format not available"
          /\ resp.headers = NoHeaders
          /\ ~resp.headersSent
          /\ resp.chunks = 0
  /\ dl.pc = "streaming" => SelectorIn(dl.in.itag, dl.fresh.itags)

\* the selector is a format the Job lists, gone from the fresh resolution
C7_Witness ==
  /\ resp.op = "download" /\ resp.cause = "no format"
  /\ resp.fresh.kind = "info"
  /\ resp.in.id.v \in DOMAIN JOBS
  /\ \E i \in 1..Len(JOBS[resp.in.id.v].formats) :
       NumToStr(JOBS[resp.in.id.v].formats[i].itag) = JsString(resp.in.itag)

\* C8: the URL of a successful Convert is the download path with a query
\* whose id and itag, as the download handler reads them, are the id given to
\* Convert and the selector it chose; and a download of a live Job whose
\* selector is in the fresh resolution streams the format of that selector
\* with a Content-Disposition: attachment header.
C8_DownloadUrlRoundTrip ==
  /\ (resp.op = "convert" /\ resp.status = "success") =>
       LET req == Parsed(QueryOf(resp.downloadUrl)) IN
       /\ PathOf(resp.downloadUrl) = DownloadPath
       /\ req.query.id = Str(JsString(resp.in.id))
       /\ req.query.itag = Str(JsString(resp.itag))
  /\ dl.pc = "streaming" =>
       /\ dl.res.headers.disposition = "attachment"
       /\ NumToStr(dl.format.itag) = JsString(dl.in.itag)
       /\ dl.job.id = dl.in.id.v
  /\ (/\ resp.op = "download"
      /\ resp.fresh.kind = "info"
      /\ SelectorIn(resp.in.itag, resp.fresh.itags)) =>
       /\ resp.cause \in {"stream end", "stream error"}
       /\ resp.headers.disposition = "attachment"
       /\ NumToStr(resp.itag.v) = JsString(resp.in.itag)

\* a download of the URL Convert builds for the first Job and itag 18 has
\* streamed to its end
C8_Witness ==
  /\ resp.op = "download" /\ resp.how = "complete" /\ resp.chunks > 0
  /\ resp.headers.disposition = "attachment"
  /\ resp.in.id = Parsed(QueryOf(BuildDownloadUrl(Str(makeJobId(1)), Num(18)))).query.id
  /\ resp.in.itag = Parsed(QueryOf(BuildDownloadUrl(Str(makeJobId(1)), Num(18)))).query.itag

\* C9: a download that an error ends (the resolver threw, the resolution had
\* no videoDetails, the stream emitted an error) gets an error status when no
\* header had gone out, and the end of the response with no body when the
\* headers had; either way the request is over and the process is up.
C9_StreamingErrors ==
  /\ alive
  /\ (/\ resp.op = "download"
      /\ resp.cause \in {"getInfo threw", "no videoDetails", "stream error"}) =>
       /\ ~resp.headersSent => (resp.how = "status" /\ resp.code = 500)
       /\ resp.headersSent => (resp.how = "cut" /\ resp.body = "")
       /\ dl = Idle

\* the stream's error after the headers and a chunk have gone out
C9_Witness ==
  /\ resp.op = "download" /\ resp.cause = "stream error"
  /\ resp.headersSent /\ resp.chunks > 0
  /\ resp.how = "cut"

\* C10: no stream of a request is open (flowing or paused) once the client of
\* that request has closed the connection.
C10_NoStreamAfterClientClose ==
  ~(dl.pc = "streaming" /\ dl.client = "closed"
      /\ dl.stream \in {"flowing", "paused"})

\* the texts escapeHtml writes for the characters it replaces
Entities == {EscapeChar(c) : c \in {"&", "\"", "'", "<", ">"}}

\* s has no raw markup character: no <, > or ", and each & begins an entity
NoRawMarkup(s) ==
  \A i \in 1..Len(s) :
    /\ s[i] \notin {"<", ">", "\""}
    /\ s[i] = "&" =>
         \E e \in Entities :
           i + Len(e) - 1 <= Len(s) /\ SubSeq(s, i, i + Len(e) - 1) = e

\* C11: the markup of a successful Status has no raw markup character in the
\* texts it takes from the Job: the title, the author, and the quality label
\* and the container of each format row.
C11_StatusEscapesJobText ==
  (resp.op = "status" /\ resp.status = "success") =>
    /\ NoRawMarkup(resp.result.title)
    /\ NoRawMarkup(resp.result.author)
    /\ \A i \in 1..Len(resp.result.rows) :
         /\ NoRawMarkup(resp.result.rows[i].qualityLabel)
         /\ NoRawMarkup(resp.result.rows[i].container)

\* the part of C11 about the title and the author alone
C11_TitleAndAuthorEscaped ==
  (resp.op = "status" /\ resp.status = "success") =>
    /\ NoRawMarkup(resp.result.title)
    /\ NoRawMarkup(resp.result.author)

\* C12: a download request whose Job the sweep removed while the request was
\* waiting for the resolver ends, when the resolver answers, with "Job not
\* found", no download header set and no chunk written.
C12_SweptJobEndsRequest ==
  [][(dl.pc = "resolving" /\ dl.job.id \notin DOMAIN JOBS /\ dl'.pc # "resolving") =>
       /\ dl' = Idle
       /\ resp'.op = "download"
       /\ resp'.cause = "no job"
       /\ resp'.headers = NoHeaders
       /\ resp'.chunks = 0]_vars

\* C13: Analyze of a non-empty input that is neither a URL ytdl recognises nor
\* a bare id answers "Invalid YouTube URL/ID" (so it has not called the
\* resolver) and leaves the store as it was.
C13_InvalidInputRejected ==
  [][(/\ resp'.op = "analyze"
      /\ Truthy(resp'.in.url)
      /\ ~validateURL(JsString(resp'.in.url))
      /\ ~validateID(JsString(resp'.in.url))) =>
       /\ resp'.status = "false"
       /\ resp'.error = "Invalid YouTube URL/ID"
       /\ JOBS' = JOBS]_vars

\* C14: an Analyze that does not answer status "ok" answers status false and
\* leaves the store, and the count of ids issued, as they were.
C14_FailedAnalyzeLeavesStore ==
  [][(resp'.op = "analyze" /\ resp'.status # "ok") =>
       /\ resp'.status = "false"
       /\ JOBS' = JOBS
       /\ issued' = issued
       /\ alive']_vars

\* the resolver failed a valid URL while a Job of another request was stored
C14_Witness ==
  /\ resp.op = "analyze" /\ resp.code = 500
  /\ validateURL(JsString(resp.in.url))
  /\ JOBS # <<>>

\* C15: a Convert step issues no id, leaves the download request in flight as
\* it was but for the url of the Job object it shares, leaves the keys of the
\* store and every Job other than the one looked up as they were, and changes
\* of the Job looked up at most the url, to the URL supplied when that differs.
C15_ConvertFrame ==
  [][resp'.op = "convert" =>
       /\ issued' = issued
       /\ now' = now
       /\ dl'.pc = dl.pc
       /\ dl.pc # "idle" =>
            /\ dl'.res = dl.res
            /\ dl'.resolveUrl = dl.resolveUrl
            /\ [dl' EXCEPT !.job = dl.job] = dl
       /\ DOMAIN JOBS' = DOMAIN JOBS
       /\ \A id \in DOMAIN JOBS :
            IF /\ resp'.status = "success"
               /\ resp'.in.id = Str(id)
               /\ Truthy(resp'.in.url)
               /\ JsString(resp'.in.url) # JOBS[id].url
            THEN JOBS'[id] = [JOBS[id] EXCEPT !.url = JsString(resp'.in.url)]
            ELSE JOBS'[id] = JOBS[id]]_vars

\* Convert has put the URL of video B on a Job analyzed from video A, which
\* keeps the id, the title and the formats it had, with a second Job in the
\* store that keeps its url
C15_Witness ==
  /\ resp.op = "convert" /\ resp.status = "success"
  /\ resp.in.url = Str(UrlB)
  /\ LET job == JOBS[resp.in.id.v] IN
     /\ job.url = UrlB
     /\ job.info.title = VideoDetails(VidA).title
     /\ job.formats # <<>>
  /\ \E other \in DOMAIN JOBS : other # resp.in.id.v /\ JOBS[other].url = UrlA

\* the positions of raw whose descriptor has video or audio
UsableAt(raw) == {i \in 1..Len(raw) : raw[i].hasVideo \/ raw[i].hasAudio}

\* the k-th least position of the set idx
KthOf(idx, k) == CHOOSE i \in idx : Cardinality({j \in idx : j <= i}) = k

C17_StreamsFromResolvedUrl ==
  dl.pc = "streaming" => dl.streamUrl = dl.resolveUrl

\* C18: the itag of a successful Convert that was given no selector is the
\* itag of a descriptor of the Job's formats, and the URL embeds that itag.
C18_DefaultItagIsListed ==
  DefaultConvert =>
    LET fs == JOBS[resp.in.id.v].formats IN
    /\ \E i \in 1..Len(fs) : resp.itag = Num(fs[i].itag)
    /\ Parsed(QueryOf(resp.downloadUrl)).query.itag = Str(JsString(resp.itag))

RelayCalls ==
  IF relay.pc # "idle" THEN relay.calls
  ELSE IF resp.op = "relay" THEN resp.calls
  ELSE <<>>

\* the convert call went out and its reply was a success by the test of line 66
BothStepsSucceeded(calls) ==
  /\ Len(calls) = 2
  /\ calls[2].reply.kind = "data"
  /\ calls[2].reply.data.t = "object"
  /\ Truthy(calls[2].reply.data.status)
  /\ Truthy(calls[2].reply.data.downloadUrl)

\* C20: in the relay's /download, a convert call is the second call, made
\* after the analyze call came back with a truthy id, and carries that id
\* (in the path and in the form); a request in flight has sent nothing, a
\* request answered has sent one body and is over; the body is status
\* "success", with the downloadUrl of the convert reply, exactly when both
\* backend steps succeeded, and status false otherwise.
C20_RelayOrderAndOutcome ==
  /\ \A k \in 1..Len(RelayCalls) :
       RelayCalls[k].to = "convert" =>
         /\ k = 2
         /\ RelayCalls[1].to = "analyze"
         /\ RelayCalls[1].reply.kind = "data"
         /\ RelayCalls[1].reply.data.t = "object"
         /\ Truthy(RelayCalls[1].reply.data.id)
         /\ RelayCalls[2].id = RelayCalls[1].reply.data.id
         /\ RelayCalls[2].pathId = encodeURIComponentText(JsString(RelayCalls[2].id))
         /\ RelayCalls[2].url = RelayCalls[1].url
  /\ relay.pc # "idle" => (relay.sent = 0 /\ resp.op # "relay")
  /\ resp.op = "relay" =>
       /\ relay = RelayIdle
       /\ resp.sent = 1
       /\ resp.status \in {"success", "false"}
       /\ resp.status = "success" <=> BothStepsSucceeded(resp.calls)
       /\ resp.status = "success" =>
            resp.downloadUrl = resp.calls[2].reply.data.downloadUrl
       /\ ~Truthy(resp.in.url) => (resp.status = "false" /\ resp.calls = <<>>)

\* a success for a request that gave neither note nor format, on an id with
\* characters the path has to encode
C20_Witness ==
  /\ resp.op = "relay" /\ resp.status = "success"
  /\ ~Truthy(resp.in.note) /\ ~Truthy(resp.in.format)
  /\ resp.calls[2].id = Str(AmpText)
  /\ resp.calls[2].note = Str(T360p)
  /\ resp.calls[2].format = Str(T18)

====
